---- MODULE Spec2Model ----
(***************************************************************************)
(* Model of diffimg (src/src/lib.rs): abs_diff, safe_load_image,           *)
(* validate_image_compatibility, calculate_diff_ratio, create_diff_image   *)
(* and run.                                                                *)
(*                                                                         *)
(* A DynamicImage is a record [w, h, color, data]; data is the raw,        *)
(* row-major, channel-interleaved byte buffer (raw_pixels()), indexed      *)
(* from 1 as TLA+ sequences are.  An f64 is modelled by the reduced        *)
(* fraction it was divided from, with NaN and +inf as separate values.     *)
(***************************************************************************)
EXTENDS Integers, Sequences, FiniteSets, TLC

(* ---------------- bounds of the model ---------------- *)
MaxW == 4
MaxH == 4

(* ---------------- program constants ---------------- *)
U8Max == 255
ChunkSize == 32
NumChannels == 4

Bytes == 0..U8Max
FillVals == {0, 255}
TailVals(fill) == {fill, 7}

Layouts == {"Gray", "GrayA", "RGB", "RGBA"}

Channels(color) ==
  CASE color = "Gray"  -> 1
    [] color = "GrayA" -> 2
    [] color = "RGB"   -> 3
    [] color = "RGBA"  -> 4

(* raw buffer of a w x h image: every byte is fill, the last one is tail *)
MkImage(w, h, color, fill, tail) ==
  LET n == w * h * Channels(color)
  IN [w |-> w, h |-> h, color |-> color,
      data |-> [i \in 1..n |-> IF i = n THEN tail ELSE fill]]

Images ==
  UNION { { MkImage(w, h, c, f, t) : w \in 0..MaxW, h \in 0..MaxH, c \in Layouts,
                                     t \in TailVals(f) } : f \in FillVals }

NoImage == [w |-> 0, h |-> 0, color |-> "none", data |-> << >>]
None == "None"
Filenames == {"diff.png"}
Path1 == "image1"
Path2 == "image2"

(* ---------------- u8 arithmetic ---------------- *)
(* x - y on u8: the wrapped value and whether the subtraction underflowed  *)
SubU8(a, b) == [val |-> (a - b) % (U8Max + 1), overflow |-> a < b]

abs_diff_flipped(x, y) == IF x < y THEN SubU8(x, y) ELSE SubU8(y, x)

abs_diff(x, y) == IF x > y THEN SubU8(x, y) ELSE SubU8(y, x)

Abs(n) == IF n < 0 THEN -n ELSE n

(* ---------------- results ---------------- *)
(* Result<(), String>: Ok(()) or Err(message); arg is what the message   *)
(* formats into it.  Running: not returned yet.  Aborted: the process     *)
(* ended inside the call (a panic, or an illegal-instruction fault).      *)
Ok == [tag |-> "Ok", msg |-> "", arg |-> ""]
Err(msg, arg) == [tag |-> "Err", msg |-> msg, arg |-> arg]
Running == [tag |-> "Running", msg |-> "", arg |-> ""]
Aborted(how) == [tag |-> "Abort", msg |-> how, arg |-> ""]

(* ---------------- safe_load_image ---------------- *)
(* what the path names: nothing, a file the codec rejects, or an image *)
FileContents ==
  {[kind |-> "absent", image |-> NoImage], [kind |-> "garbage", image |-> NoImage]}
  \cup {[kind |-> "image", image |-> i] : i \in Images}

safe_load_image(raw_path, content) ==
  IF content.kind = "absent"
    THEN [res |-> Err("Path does not exist", raw_path), image |-> NoImage]
  ELSE IF content.kind = "garbage"
    THEN [res |-> Err("decode error", ""), image |-> NoImage]
  ELSE [res |-> Ok, image |-> content.image]

(* ---------------- validate_image_compatibility ---------------- *)
dimensions(img) == <<img.w, img.h>>

DimensionMismatch == Err("images must have the same dimensions", "")
ColorModeMismatch == Err("images must have the same color mode", "")

validate_color_first(img1, img2) ==
  IF img1.color # img2.color THEN ColorModeMismatch
  ELSE IF dimensions(img1) # dimensions(img2) THEN DimensionMismatch
  ELSE Ok

validate_image_compatibility(img1, img2) ==
  IF dimensions(img1) # dimensions(img2) THEN DimensionMismatch
  ELSE IF img1.color # img2.color THEN ColorModeMismatch
  ELSE Ok

(* ---------------- f64 ---------------- *)
RECURSIVE GCD(_, _)
GCD(a, b) == IF b = 0 THEN a ELSE GCD(b, a % b)

F64NaN == [n |-> 0, d |-> 0]
F64Inf == [n |-> 1, d |-> 0]
F64Zero == [n |-> 0, d |-> 1]
NoRatio == [n |-> -1, d |-> -1]

(* a as f64 / b as f64 for unsigned integers below 2^53 *)
F64Div(a, b) ==
  IF b = 0 THEN (IF a = 0 THEN F64NaN ELSE F64Inf)
  ELSE LET g == GCD(a, b) IN [n |-> a \div g, d |-> b \div g]

(* == on f64: NaN equals nothing, itself included *)
F64Eq(p, q) == p # F64NaN /\ q # F64NaN /\ p = q

(* ---------------- calculate_diff_ratio ---------------- *)
raw_pixels(img) == img.data

Min(a, b) == IF a < b THEN a ELSE b

RECURSIVE SumAbs(_, _, _, _)
SumAbs(a, b, from, to) ==
  IF from > to THEN 0
  ELSE Abs(a[from] - b[from]) + SumAbs(a, b, from + 1, to)

(* _mm256_sad_epu8: four 64-bit lanes, each the sum of |a - b| over 8 bytes *)
mm256_sad_epu8(a, b) == [k \in 0..3 |-> SumAbs(a, b, 8 * k + 1, 8 * k + 8)]

(* The loop of lines 85-93 from chunk offset i on.  The two slices         *)
(* [i..i+32] are bounds-checked and panic; the AVX2 intrinsics run on a    *)
(* CPU that has AVX2 (avx2) or raise an illegal-instruction fault.         *)
RECURSIVE ChunkLoop(_, _, _, _, _, _)
ChunkLoop(b1, b2, len, i, diffsum, avx2) ==
  IF i >= len THEN [outcome |-> "ok", diffsum |-> diffsum]
  ELSE IF i + ChunkSize > Len(b1) \/ i + ChunkSize > Len(b2)
    THEN [outcome |-> "panic", diffsum |-> diffsum]
  ELSE IF ~avx2 THEN [outcome |-> "sigill", diffsum |-> diffsum]
  ELSE LET a == SubSeq(b1, i + 1, i + ChunkSize)
           b == SubSeq(b2, i + 1, i + ChunkSize)
           r == mm256_sad_epu8(a, b)
       IN ChunkLoop(b1, b2, len, i + ChunkSize,
                    diffsum + r[0] + r[1] + r[2] + r[3], avx2)

calculate_diff_ratio(img1, img2, avx2) ==
  LET max_val == 2^8 - 1
      b1 == raw_pixels(img1)
      b2 == raw_pixels(img2)
      len == Min(Len(b1), Len(b2))
      loop == ChunkLoop(b1, b2, len, 0, 0, avx2)
      total_possible == max_val * Len(b1)
  IN IF loop.outcome # "ok"
       THEN [outcome |-> loop.outcome, diffsum |-> loop.diffsum,
             total_possible |-> 0, ratio |-> NoRatio]
       ELSE [outcome |-> "ok", diffsum |-> loop.diffsum,
             total_possible |-> total_possible,
             ratio |-> F64Div(loop.diffsum, total_possible)]

(* ---------------- pixels of a DynamicImage ---------------- *)
(* get_pixel of a DynamicImage yields an Rgba<u8>: grey is replicated and  *)
(* a missing alpha is 255.                                                *)
get_pixel(img, px, py) ==
  LET ch == Channels(img.color)
      base == (py * img.w + px) * ch
      d == img.data
  IN CASE img.color = "Gray"  -> <<d[base + 1], d[base + 1], d[base + 1], U8Max>>
       [] img.color = "GrayA" -> <<d[base + 1], d[base + 1], d[base + 1], d[base + 2]>>
       [] img.color = "RGB"   -> <<d[base + 1], d[base + 2], d[base + 3], U8Max>>
       [] img.color = "RGBA"  -> <<d[base + 1], d[base + 2], d[base + 3], d[base + 4]>>

(* put_pixel of an Rgba<u8> into an RGB or RGBA DynamicImage *)
put_pixel(img, px, py, rgba) ==
  LET ch == Channels(img.color)
      base == (py * img.w + px) * ch
  IN [img EXCEPT !.data =
        [i \in 1..Len(img.data) |->
           IF i > base /\ i <= base + ch THEN rgba[i - base] ELSE img.data[i]]]

new_image(w, h, color) == MkImage(w, h, color, 0, 0)

(* the match on image1.color() of lines 109-113 *)
UnsupportedColorMode(color) == Err("color mode not yet supported", color)

new_diff_any(img1) ==
  IF img1.color = "RGB"
    THEN [res |-> Ok, image |-> new_image(img1.w, img1.h, "RGB")]
    ELSE [res |-> Ok, image |-> new_image(img1.w, img1.h, "RGBA")]

new_diff(img1) ==
  CASE img1.color = "RGB"  -> [res |-> Ok, image |-> new_image(img1.w, img1.h, "RGB")]
    [] img1.color = "RGBA" -> [res |-> Ok, image |-> new_image(img1.w, img1.h, "RGBA")]
    [] OTHER -> [res |-> UnsupportedColorMode(img1.color), image |-> NoImage]

(* body of the pixel loop, lines 117-125 *)
diff_pixel_rgb_only(img1, img2, px, py) ==
  LET p1 == get_pixel(img1, px, py)
      p2 == get_pixel(img2, px, py)
  IN [c \in 1..NumChannels |-> IF c = NumChannels THEN 0 ELSE abs_diff(p1[c], p2[c]).val]

diff_pixel(img1, img2, px, py) ==
  LET p1 == get_pixel(img1, px, py)
      p2 == get_pixel(img2, px, py)
  IN [c \in 1..NumChannels |-> abs_diff(p1[c], p2[c]).val]

(* the match on config.filename of lines 142-155 *)
dispatch_swapped(fname) == IF fname # None THEN "ratio" ELSE "diff_start"

dispatch(fname) == IF fname # None THEN "diff_start" ELSE "ratio"

(* ---------------- state ---------------- *)
VARIABLES
  pc,         \* position of the program
  entry,      \* the public function that was called
  filename,   \* Config.filename, or the filename argument
  image1, image2,
  validated,  \* what validate_image_compatibility returned
  diff,       \* the output image of create_diff_image
  x, y,       \* the pixel loop's counters
  pixels,     \* iterations of the pixel loop's body so far
  saves,      \* invocations of diff.save so far
  stages,     \* the stages started so far, in order
  result,     \* what the called function returned, or how it aborted
  ratio,      \* the f64 returned by calculate_diff_ratio
  diffsum,    \* its accumulated diffsum when it returned
  outFile,    \* the file at the output path
  stdout,
  ax, ay, ar  \* arguments and result of a call of abs_diff

vars == <<pc, entry, filename, image1, image2, validated, diff, x, y, pixels,
          saves, stages, result, ratio, diffsum, outFile, stdout, ax, ay, ar>>

absVars == <<ax, ay, ar>>
diffVars == <<diff, x, y, pixels, saves, outFile>>

NoFile == [state |-> "none", image |-> NoImage]
NoAbs == [val |-> 0, overflow |-> FALSE, done |-> FALSE]

Init ==
  /\ pc = "idle"
  /\ entry = "none"
  /\ filename = None
  /\ image1 = NoImage
  /\ image2 = NoImage
  /\ validated = Running
  /\ diff = NoImage
  /\ x = 0
  /\ y = 0
  /\ pixels = 0
  /\ saves = 0
  /\ stages = << >>
  /\ result = Running
  /\ ratio = NoRatio
  /\ diffsum = 0
  /\ outFile = NoFile
  /\ stdout = ""
  /\ ax = 0
  /\ ay = 0
  /\ ar = NoAbs

(* ---------------- run ---------------- *)
CallRun ==
  /\ pc = "idle"
  /\ \E f \in {None} \cup Filenames : filename' = f
  /\ entry' = "run"
  /\ pc' = "load1"
  /\ UNCHANGED <<image1, image2, validated, stages, result, ratio, diffsum, stdout>>
  /\ UNCHANGED diffVars
  /\ UNCHANGED absVars

(* let image1 = safe_load_image(&config.image1)?; *)
Load1 ==
  /\ pc = "load1"
  /\ \E content \in FileContents :
       LET r == safe_load_image(Path1, content) IN
         /\ image1' = r.image
         /\ IF r.res = Ok
              THEN pc' = "load2" /\ result' = result
              ELSE pc' = "done" /\ result' = r.res
  /\ stages' = Append(stages, "load1")
  /\ UNCHANGED <<entry, filename, image2, validated, ratio, diffsum, stdout>>
  /\ UNCHANGED diffVars
  /\ UNCHANGED absVars

(* let image2 = safe_load_image(&config.image2)?; *)
Load2 ==
  /\ pc = "load2"
  /\ \E content \in FileContents :
       LET r == safe_load_image(Path2, content) IN
         /\ image2' = r.image
         /\ IF r.res = Ok
              THEN pc' = "validate" /\ result' = result
              ELSE pc' = "done" /\ result' = r.res
  /\ stages' = Append(stages, "load2")
  /\ UNCHANGED <<entry, filename, image1, validated, ratio, diffsum, stdout>>
  /\ UNCHANGED diffVars
  /\ UNCHANGED absVars

(* validate_image_compatibility(&image1, &image2)?; then the match *)
Validate ==
  /\ pc = "validate"
  /\ LET r == validate_image_compatibility(image1, image2) IN
       /\ validated' = r
       /\ IF r = Ok
            THEN pc' = dispatch(filename) /\ result' = result
            ELSE pc' = "done" /\ result' = r
  /\ stages' = Append(stages, "validate")
  /\ UNCHANGED <<entry, filename, image1, image2, ratio, diffsum, stdout>>
  /\ UNCHANGED diffVars
  /\ UNCHANGED absVars

(* ---------------- calculate_diff_ratio ---------------- *)
(* a direct call of the public function, with any two images *)
CallCalculateDiffRatio ==
  /\ pc = "idle"
  /\ \E i1 \in Images, i2 \in Images : image1' = i1 /\ image2' = i2
  /\ entry' = "calculate_diff_ratio"
  /\ pc' = "ratio"
  /\ UNCHANGED <<filename, validated, stages, result, ratio, diffsum, stdout>>
  /\ UNCHANGED diffVars
  /\ UNCHANGED absVars

(* the whole of calculate_diff_ratio and, under run, the println of the ratio *)
CalculateDiffRatio ==
  /\ pc = "ratio"
  /\ \E avx2 \in BOOLEAN :
       LET r == calculate_diff_ratio(image1, image2, avx2) IN
         IF r.outcome = "ok"
           THEN /\ ratio' = r.ratio
                /\ diffsum' = r.diffsum
                /\ result' = Ok
                /\ stdout' = IF entry = "run" THEN "ratio" ELSE stdout
           ELSE /\ ratio' = ratio
                /\ diffsum' = diffsum
                /\ result' = Aborted(r.outcome)
                /\ stdout' = stdout
  /\ stages' = Append(stages, "calculate_diff_ratio")
  /\ pc' = "done"
  /\ UNCHANGED <<entry, filename, image1, image2, validated>>
  /\ UNCHANGED diffVars
  /\ UNCHANGED absVars

(* ---------------- create_diff_image ---------------- *)
(* a direct call of the public function; images of equal width and height, *)
(* as get_pixel of image2 is called at image1's coordinates                *)
CallCreateDiffImage ==
  /\ pc = "idle"
  /\ \E i1 \in Images, i2 \in Images :
       /\ dimensions(i1) = dimensions(i2)
       /\ image1' = i1
       /\ image2' = i2
  /\ \E f \in Filenames : filename' = f
  /\ entry' = "create_diff_image"
  /\ pc' = "diff_start"
  /\ UNCHANGED <<validated, stages, result, ratio, diffsum, stdout>>
  /\ UNCHANGED diffVars
  /\ UNCHANGED absVars

(* lines 106-113: allocate the output or return the unsupported error *)
CreateDiffImageStart ==
  /\ pc = "diff_start"
  /\ LET r == new_diff(image1) IN
       /\ diff' = r.image
       /\ IF r.res = Ok
            THEN /\ pc' = IF image1.w = 0 \/ image1.h = 0 THEN "diff_save" ELSE "diff_loop"
                 /\ result' = result
            ELSE /\ pc' = "done"
                 /\ result' = r.res
  /\ x' = 0
  /\ y' = 0
  /\ stages' = Append(stages, "create_diff_image")
  /\ UNCHANGED <<entry, filename, image1, image2, validated, ratio, diffsum, stdout>>
  /\ UNCHANGED <<pixels, saves, outFile>>
  /\ UNCHANGED absVars

(* one iteration of for x in 0..w { for y in 0..h { ... } } *)
PixelStep ==
  /\ pc = "diff_loop"
  /\ diff' = put_pixel(diff, x, y, diff_pixel(image1, image2, x, y))
  /\ pixels' = pixels + 1
  /\ IF y + 1 < image1.h
       THEN x' = x /\ y' = y + 1 /\ pc' = pc
       ELSE IF x + 1 < image1.w
         THEN x' = x + 1 /\ y' = 0 /\ pc' = pc
         ELSE x' = x + 1 /\ y' = 0 /\ pc' = "diff_save"
  /\ UNCHANGED <<entry, filename, image1, image2, validated, stages, result,
                 ratio, diffsum, stdout, saves, outFile>>
  /\ UNCHANGED absVars

(* diff.save(filename) and the return; under run, the println *)
Save ==
  /\ pc = "diff_save"
  /\ saves' = saves + 1
  /\ \/ /\ outFile' = [state |-> "written", image |-> diff]
        /\ result' = Ok
        /\ stdout' = IF entry = "run" THEN "Wrote diff image" ELSE stdout
     \/ /\ \E st \in {outFile.state, "partial"} :
             outFile' = [state |-> st, image |-> NoImage]
        /\ result' = Err("write error", "")
        /\ stdout' = stdout
  /\ pc' = "done"
  /\ UNCHANGED <<entry, filename, image1, image2, validated, stages, ratio,
                 diffsum, diff, x, y, pixels>>
  /\ UNCHANGED absVars

Next ==
  \/ CallRun
  \/ Load1
  \/ Load2
  \/ Validate
  \/ CallCalculateDiffRatio
  \/ CalculateDiffRatio
  \/ CallCreateDiffImage
  \/ CreateDiffImageStart
  \/ PixelStep
  \/ Save

Spec == Init /\ [][Next]_vars

(* ---------------- abs_diff on its own ---------------- *)
InitAbs ==
  /\ pc = "idle"
  /\ entry = "abs_diff"
  /\ filename = None
  /\ image1 = NoImage
  /\ image2 = NoImage
  /\ validated = Running
  /\ diff = NoImage
  /\ x = 0
  /\ y = 0
  /\ pixels = 0
  /\ saves = 0
  /\ stages = << >>
  /\ result = Running
  /\ ratio = NoRatio
  /\ diffsum = 0
  /\ outFile = NoFile
  /\ stdout = ""
  /\ ax \in Bytes
  /\ ay \in Bytes
  /\ ar = NoAbs

AbsDiffCall ==
  /\ entry = "abs_diff"
  /\ ~ar.done
  /\ LET r == abs_diff(ax, ay) IN
       ar' = [val |-> r.val, overflow |-> r.overflow, done |-> TRUE]
  /\ UNCHANGED <<pc, entry, filename, image1, image2, validated, diff, x, y,
                 pixels, saves, stages, result, ratio, diffsum, outFile, stdout,
                 ax, ay>>

NextAbs == AbsDiffCall

SpecAbs == InitAbs /\ [][NextAbs]_vars

TypeOK ==
  /\ pc \in {"idle", "load1", "load2", "validate", "ratio", "diff_start",
             "diff_loop", "diff_save", "done"}
  /\ saves \in 0..1
  /\ pixels \in 0..(MaxW * MaxH)

(* ======================= properties ======================= *)
Range(s) == {s[i] : i \in 1..Len(s)}
IsPrefix(s, t) == Len(s) <= Len(t) /\ \A i \in 1..Len(s) : s[i] = t[i]
Last(s) == s[Len(s)]

(* C1: validate_image_compatibility returns Ok iff width, height and      *)
(* colour layout are all equal; it returns the dimension error whenever   *)
(* width or height differ (whatever the layouts) and the colour-mode      *)
(* error whenever the dimensions agree and the layouts differ, equal byte *)
(* counts or not.                                                         *)
C1_ValidateContract ==
  validated # Running =>
    LET sameDim == image1.w = image2.w /\ image1.h = image2.h
        sameCol == image1.color = image2.color
    IN /\ (validated = Ok <=> (sameDim /\ sameCol))
       /\ (~sameDim => validated = DimensionMismatch)
       /\ (sameDim /\ ~sameCol => validated = ColorModeMismatch)

C1_Witness ==
  /\ validated = ColorModeMismatch
  /\ image1.color # image2.color
  /\ Len(image1.data) = Len(image2.data)

(* C2: under run the stages started are a prefix of Load(image1),         *)
(* Load(image2), Validate and the one comparison the filename selects;    *)
(* validation starts only after both loads succeeded, a comparison only   *)
(* after validation succeeded, and a failed stage is the last one started *)
(* and its error is what run ends with.                                   *)
Pipeline ==
  <<"load1", "load2", "validate",
    IF filename # None THEN "create_diff_image" ELSE "calculate_diff_ratio">>

StageErrors(stage) ==
  CASE stage = "load1" -> {Err("Path does not exist", Path1), Err("decode error", "")}
    [] stage = "load2" -> {Err("Path does not exist", Path2), Err("decode error", "")}
    [] stage = "validate" -> {DimensionMismatch, ColorModeMismatch}
    [] stage = "create_diff_image" ->
         {UnsupportedColorMode(c) : c \in Layouts} \cup {Err("write error", "")}
    [] stage = "calculate_diff_ratio" -> {Aborted("panic"), Aborted("sigill")}

C2_StageOrder ==
  entry = "run" =>
    /\ IsPrefix(stages, Pipeline)
    /\ (Len(stages) >= 2 => image1 \in Images)
    /\ (Len(stages) >= 3 => image2 \in Images)
    /\ (Len(stages) >= 4 => validated = Ok)
    /\ (result.tag \in {"Err", "Abort"} =>
          /\ pc = "done"
          /\ stages # << >>
          /\ result \in StageErrors(Last(stages)))
    /\ (pc = "done" => result # Running)

C2_Witness ==
  /\ entry = "run"
  /\ pc = "done"
  /\ stages = <<"load1", "load2", "validate", "create_diff_image">>
  /\ result = Ok

(* C7: create_diff_image on an image that is neither RGB nor RGBA returns *)
(* the unsupported-colour-mode error with no pixel processed and save     *)
(* never invoked, and wherever that error is returned no file was created *)
(* or overwritten.                                                        *)
C7_UnsupportedBeforePixels ==
  /\ (result.msg = "color mode not yet supported" =>
        pixels = 0 /\ saves = 0 /\ outFile = NoFile /\ diff = NoImage)
  /\ ("create_diff_image" \in Range(stages) /\ image1.color \notin {"RGB", "RGBA"} =>
        /\ result = UnsupportedColorMode(image1.color)
        /\ pc = "done"
        /\ pixels = 0
        /\ saves = 0
        /\ outFile = NoFile)

C7_Witness ==
  /\ result = UnsupportedColorMode("Gray")
  /\ image1.w > 0
  /\ image1.h > 0
  /\ filename # None

(* C8: for validated RGB or RGBA images, when save is invoked the loop    *)
(* has visited every coordinate, the output has image1's width, height    *)
(* and layout, and every stored byte is abs_diff of the two input bytes   *)
(* at the same place; identical inputs give an all-zero output.  What a   *)
(* successful save writes is that image.                                  *)
C8_DiffImageAtSave ==
  ( /\ (pc = "diff_save" \/ saves > 0)
    /\ image1.color \in {"RGB", "RGBA"}
    /\ image1.w = image2.w /\ image1.h = image2.h
    /\ image1.color = image2.color ) =>
      /\ pixels = image1.w * image1.h
      /\ diff.w = image1.w
      /\ diff.h = image1.h
      /\ diff.color = image1.color
      /\ Len(diff.data) = Len(image1.data)
      /\ \A i \in 1..Len(image1.data) :
           diff.data[i] = abs_diff(image1.data[i], image2.data[i]).val
      /\ (image1 = image2 => \A i \in 1..Len(diff.data) : diff.data[i] = 0)
      /\ (outFile.state = "written" => outFile.image = diff)

C8_Witness ==
  /\ saves = 1
  /\ outFile.state = "written"
  /\ image1.color = "RGBA"
  /\ image2.color = "RGBA"
  /\ image1.w = 4 /\ image1.h = 2
  /\ diff.data[1] = 255
  /\ diff.data[Len(diff.data)] = 7

(* C9: abs_diff(x, y) is |x - y| for all bytes, with no u8 subtraction    *)
(* underflowing; so it is symmetric, 0 on equal arguments, 255 on (0,255) *)
(* and always a byte.                                                     *)
C9_AbsDiff ==
  ar.done =>
    /\ ~ar.overflow
    /\ ar.val = Abs(ax - ay)
    /\ ar.val \in Bytes
    /\ ar.val = abs_diff(ay, ax).val
    /\ (ax = ay => ar.val = 0)
    /\ (ax = 0 /\ ay = U8Max => ar.val = U8Max)

C9_Witness == ar.done /\ ax = 0 /\ ay = U8Max /\ ar.val = U8Max

(* ---- calculate_diff_ratio: the statements of C3, C4, C5, C6, C10 ---- *)
RatioReturned == pc = "done" /\ stages # << >> /\ Last(stages) = "calculate_diff_ratio"

(* the machine had AVX2, or never reached an AVX2 instruction *)
NoFault == result # Aborted("sigill")

(* C3: calculate_diff_ratio completes and returns a ratio for buffers of  *)
(* any lengths, and returns 0.0 when the first buffer is empty.           *)
C3_NeverFails ==
  RatioReturned /\ NoFault =>
    /\ result = Ok
    /\ ratio # NoRatio
    /\ (Len(image1.data) = 0 => F64Eq(ratio, F64Zero))

(* C4: the returned ratio lies in [0, 1], total_possible being non-zero,  *)
(* for every pair of images, of equal lengths or not.                     *)
C4_RatioInUnitInterval ==
  RatioReturned /\ NoFault =>
    /\ result = Ok
    /\ ratio.d > 0
    /\ 0 <= ratio.n
    /\ ratio.n <= ratio.d

(* C5: calculate_diff_ratio(img, img) returns exactly 0.0 for any image.  *)
C5_SelfRatioZero ==
  RatioReturned /\ NoFault /\ image1 = image2 =>
    result = Ok /\ F64Eq(ratio, F64Zero)

(* C6: calculate_diff_ratio(a, b) == calculate_diff_ratio(b, a): when a  *)
(* call returns, the call with the images swapped returns too, with the   *)
(* same diffsum, the same denominator and the same ratio.                 *)
C6_Symmetric ==
  RatioReturned /\ result = Ok =>
    LET given == calculate_diff_ratio(image1, image2, TRUE)
        swapped == calculate_diff_ratio(image2, image1, TRUE)
    IN /\ swapped.outcome = "ok"
       /\ diffsum = swapped.diffsum
       /\ given.total_possible = swapped.total_possible
       /\ (F64Eq(ratio, swapped.ratio) \/ (ratio = F64NaN /\ swapped.ratio = F64NaN))

(* C10: the chunk loop's diffsum is the scalar sum of abs_diff over the   *)
(* first 32 * floor(len / 32) bytes, len the shorter length; trailing     *)
(* bytes short of a chunk are ignored, the loop completes and a ratio is  *)
(* returned.                                                              *)
RECURSIVE ScalarSum(_, _, _)
ScalarSum(b1, b2, n) ==
  IF n = 0 THEN 0
  ELSE abs_diff(b1[n], b2[n]).val + ScalarSum(b1, b2, n - 1)

C10_WholeChunksOnly ==
  RatioReturned /\ NoFault =>
    LET len == Min(Len(image1.data), Len(image2.data))
    IN /\ result = Ok
       /\ ratio # NoRatio
       /\ diffsum = ScalarSum(image1.data, image2.data,
                              ChunkSize * (len \div ChunkSize))

====
